---------------------------- MODULE Spec2Model ----------------------------
(***************************************************************************)
(* A model of src/src/main.rs: the multigrid field solver (source pyramid, *)
(* residual kernels, correction pass, V-cycle scheduler) and the particle  *)
(* transport kernel, driven by the winit event loop.                       *)
(*                                                                         *)
(* Textures are functions from texel coordinates to values.  An f32 value  *)
(* v is held as the integer v * Quantum; every float operation that is not *)
(* exact at that resolution rounds to nearest, ties to even, as f32 does   *)
(* at its own resolution.  A u32 is held as two 16-bit limbs, because the  *)
(* model checker's integers are 32-bit signed.                             *)
(***************************************************************************)
EXTENDS Integers, Sequences, FiniteSets, TLC

(***************************************************************************)
(* Bounds of the model.                                                    *)
(***************************************************************************)
\* GRID_SIZE of the solver specifications (128 in the source).
GridSize == 8
\* Half the relaxation iterations per level and tick (8 in the source).
HalfIterations == 1
\* Ticks and input events of one run.
MaxTicks == 2
MaxInputs == 1
\* Particles present when the transport dispatch starts.
MaxParticles == 2
\* Fixed-point resolution: the float 1.0 is the integer Quantum.
Quantum == 20

(***************************************************************************)
(* Program constants.                                                      *)
(***************************************************************************)
SCALING == 8
CHARGE == 5

GRID_SIZE == GridSize

\* GRID_SIZE of the transport specification, which interleaves the per-cell
\* invocations of one dispatch read by read and write by write: a quarter of
\* the solver's grid.
TransportGridSize == GRID_SIZE \div 4

RECURSIVE Log2(_)
Log2(n) == IF n <= 1 THEN 0 ELSE 1 + Log2(n \div 2)

\* 7 = log2(128) in the source: the coarsest level is 2 cells wide.
DOWNSCALE_COUNT == Log2(GRID_SIZE)

\* Faulty variant: an odd number of iterations per level.
OddIterations == 2 * HalfIterations + 1

\* for _ in 0..16
ITERATIONS == 2 * HalfIterations

Levels == 0 .. (DOWNSCALE_COUNT - 1)

Pow2(k) == 2 ^ k

\* n >> k and n << k on small naturals.
Shr(n, k) == n \div Pow2(k)
Shl(n, k) == n * Pow2(k)

(***************************************************************************)
(* f32 arithmetic at resolution 1/Quantum.                                 *)
(***************************************************************************)
\* n / d rounded to the nearest integer, ties to even (d > 0).
RoundDiv(n, d) ==
    LET q == n \div d
        r == n % d
    IN  IF 2 * r < d THEN q
        ELSE IF 2 * r > d THEN q + 1
        ELSE IF q % 2 = 0 THEN q ELSE q + 1

F32(v) == v * Quantum

Abs(v) == IF v < 0 THEN -v ELSE v

\* Vec2<f32> as a record.
Vec2(a, b) == [x |-> a, y |-> b]
VAdd(v, w) == Vec2(v.x + w.x, v.y + w.y)
VScale(v, k) == Vec2(v.x * k, v.y * k)
VDiv(v, d) == Vec2(RoundDiv(v.x, d), RoundDiv(v.y, d))

(***************************************************************************)
(* u32 arithmetic on 16-bit limbs <<hi, lo>>.                              *)
(***************************************************************************)
W16 == 65536

U32(hi, lo) == [hi |-> hi, lo |-> lo]

\* a ^ b on 4-bit values, tabulated, and on 16-bit values by nibbles.
Xor4 ==
    [a \in 0 .. 15, b \in 0 .. 15 |->
        ((a + b) % 2)
        + 2 * (((a \div 2) + (b \div 2)) % 2)
        + 4 * (((a \div 4) + (b \div 4)) % 2)
        + 8 * (((a \div 8) + (b \div 8)) % 2)]

Xor16(a, b) ==
    Xor4[a % 16, b % 16]
    + 16 * Xor4[(a \div 16) % 16, (b \div 16) % 16]
    + 256 * Xor4[(a \div 256) % 16, (b \div 256) % 16]
    + 4096 * Xor4[a \div 4096, b \div 4096]

\* (a * b) mod 2^16 for a, b < 2^16, by bytes.
MulLo16(a, b) ==
    LET a0 == a % 256
        a1 == a \div 256
        b0 == b % 256
        b1 == b \div 256
    IN  (a0 * b0 + ((a1 * b0 + a0 * b1) % 256) * 256) % W16

\* floor((a * b) / 2^16) for a, b < 2^16, by bytes.
MulHi16(a, b) ==
    LET a0 == a % 256
        a1 == a \div 256
        b0 == b % 256
        b1 == b \div 256
        mid == a1 * b0 + a0 * b1
        low == a0 * b0 + (mid % 256) * 256
    IN  a1 * b1 + (mid \div 256) + (low \div W16)

\* x * c, wrapping (u32 *=).
WrappingMul(x, c) ==
    U32((MulHi16(x.lo, c.lo) + MulLo16(x.hi, c.lo) + MulLo16(x.lo, c.hi)) % W16,
        MulLo16(x.lo, c.lo))

\* x >> k for 0 < k < 32.
ShrU32(x, k) ==
    IF k >= 16 THEN U32(0, x.hi \div Pow2(k - 16))
    ELSE U32(x.hi \div Pow2(k),
             (x.lo \div Pow2(k)) + (x.hi % Pow2(k)) * Pow2(16 - k))

XorU32(x, y) == U32(Xor16(x.hi, y.hi), Xor16(x.lo, y.lo))

\* x ^= x >> k
XorShift(x, k) == XorU32(x, ShrU32(x, k))

\* The xorshift-multiply mixer.
hash(x) ==
    XorShift(
        WrappingMul(
            XorShift(
                WrappingMul(
                    XorShift(
                        WrappingMul(XorShift(x, 17),
                                    U32(60762, 54459)),     \* 0xed5ad4bb
                        11),
                    U32(44108, 6993)),                      \* 0xac4c1b51
                15),
            U32(12676, 35755)),                             \* 0x31848bab
        14)

\* The inputs rand hashes at the model's grid widths and tick counts (all
\* below 2^16), and hash tabulated over them.
RandInputs == 0 .. (MaxTicks + GRID_SIZE * GRID_SIZE * GRID_SIZE + 1063)

hash_of == [i \in RandInputs |-> hash(U32(0, i))]

\* rand for a grid of width n (GRID_SIZE).
rand(n, pos, t, c) ==
    hash_of[t + pos[1] * n + pos[2] * n * n + c * 1063]

\* The number of significant bits of v < 2^16.
BitLen(v) == CHOOSE k \in 0 .. 16 : v < Pow2(k) /\ (k = 0 \/ Pow2(k - 1) <= v)

\* u32 as f32: rounded to 24 significant bits, as an exact value <<hi, lo>>
\* in which hi may reach 2^16 (the value 2^32).
AsF32(x) ==
    LET drop == BitLen(x.hi) - 8
    IN  IF drop <= 0 THEN x
        ELSE LET lo == RoundDiv(x.lo, Pow2(drop)) * Pow2(drop)
             IN  U32(x.hi + lo \div W16, lo % W16)

\* rand_f32(pos, t, c) < frac, frac a fraction in quanta (0 <= frac < Quantum):
\* as_f32(rand) / 2^32 < frac / Quantum (u32::MAX as f32 is 2^32).
Below(r, frac) ==
    r.hi * Quantum + ((r.lo * Quantum) \div W16) < frac * W16

RandBelow(n, pos, t, c, frac) == Below(AsF32(rand(n, pos, t, c)), frac)


(***************************************************************************)
(* State.                                                                  *)
(***************************************************************************)
VARIABLES
    charges,            \* tex3d f32, GRID_SIZE x GRID_SIZE x DOWNSCALE_COUNT
    magnets,            \* tex3d f32, GRID_SIZE x GRID_SIZE x DOWNSCALE_COUNT
    field,              \* tex3d Vec2<f32>, (GRID_SIZE + 1)^2 x DOWNSCALE_COUNT
    divergence_error,   \* tex3d f32, (GRID_SIZE + 1)^2 x DOWNSCALE_COUNT
    curl_error,         \* tex3d f32, (GRID_SIZE - 1)^2 x DOWNSCALE_COUNT
    particles,          \* tex2d u32, GRID_SIZE x GRID_SIZE
    particle_velocity,  \* tex2d Vec2<f32>, GRID_SIZE x GRID_SIZE
    junk,               \* what a texel no kernel has written, or a read
                        \* outside a texture, yields on this device
    rt,                 \* Runtime
    active_buttons,     \* HashSet<MouseButton>
    parity,             \* let mut parity
    commands,           \* the command list of the last tick, in stream order
    pc,                 \* how many of them the stream has executed
    inputs,             \* input events handled so far
    pending,            \* cells of the running update_kernel dispatch whose
                        \* invocation has not started (transport specification)
    in_flight,          \* the writes each started invocation has still to make
    particles_before    \* particles as the last update_kernel dispatch found it

vars == <<charges, magnets, field, divergence_error, curl_error, particles,
          particle_velocity, junk, rt, active_buttons, parity, commands, pc,
          inputs, pending, in_flight, particles_before>>

textures == <<charges, magnets, field, divergence_error, curl_error, particles,
              particle_velocity>>

\* The cells of a w x h dispatch, or of a w x h texture.
Cells(w, h) == (0 .. (w - 1)) \X (0 .. (h - 1))

\* create_tex3d / create_tex2d: every texel holds v.
Tex3d(w, v) == [l \in Levels |-> [p \in Cells(w, w) |-> v]]
Tex2d(w, v) == [p \in Cells(w, w) |-> v]

(***************************************************************************)
(* Texel addresses and reads.                                              *)
(***************************************************************************)
Addr(tex, pos, level) == [tex |-> tex, pos |-> pos, level |-> level]

Texture(name) ==
    CASE name = "charges" -> charges
      [] name = "magnets" -> magnets
      [] name = "field" -> field
      [] name = "divergence_error" -> divergence_error
      [] name = "curl_error" -> curl_error

\* The address lies inside the texture as allocated.
Allocated(a) ==
    /\ a.level \in DOMAIN Texture(a.tex)
    /\ a.pos \in DOMAIN Texture(a.tex)[a.level]

\* tex.read(pos.extend(level))
Read(a) ==
    IF Allocated(a) THEN Texture(a.tex)[a.level][a.pos]
    ELSE IF a.tex = "field" THEN Vec2(junk, junk) ELSE junk

PlusX(pos) == <<pos[1] + 1, pos[2]>>
PlusY(pos) == <<pos[1], pos[2] + 1>>
MinusX(pos) == <<pos[1] - 1, pos[2]>>
MinusY(pos) == <<pos[1], pos[2] - 1>>

(***************************************************************************)
(* Kernels: for each, the texels one invocation reads, and what it writes  *)
(* at dispatch_id pos.                                                     *)
(***************************************************************************)
\* The values of a record of addresses.
Values(r) == {r[k] : k \in DOMAIN r}

compute_divergence_reads(level, pos) ==
    [charge |-> Addr("charges", pos, level),
     here |-> Addr("field", pos, level),
     right |-> Addr("field", PlusX(pos), level),
     below |-> Addr("field", PlusY(pos), level)]

compute_divergence(level, offset, pos) ==
    LET a == compute_divergence_reads(level, pos)
        target_divergence == Read(a.charge) * 1
        f == Read(a.here)
        l == -f.x
        u == -f.y
        r == Read(a.right).x
        d == Read(a.below).y
        divergence == r + d + l + u
        error == divergence - target_divergence
    IN  IF (pos[1] + pos[2]) % 2 = offset
        THEN RoundDiv(error * 19, 10)
        ELSE 0

compute_divergence_writes(level, pos) == {Addr("divergence_error", pos, level)}

compute_curl_reads(level, pos) ==
    [magnet |-> Addr("magnets", pos, level),
     diagonal |-> Addr("field", PlusX(PlusY(pos)), level),
     right |-> Addr("field", PlusX(pos), level),
     below |-> Addr("field", PlusY(pos), level)]

compute_curl(level, pos) ==
    LET a == compute_curl_reads(level, pos)
        target_curl == Read(a.magnet) * 1
        f == Read(a.diagonal)
        r == Read(a.right).x
        d == f.y
        l == -f.x
        u == -Read(a.below).y
        curl == r + d + l + u
    IN  curl - target_curl

compute_curl_writes(level, pos) == {Addr("curl_error", pos, level)}

\* The conditions under which apply_deltas reads its neighbours.
DivLeft(pos) == pos[1] > 0
DivUp(pos) == pos[2] > 0
CurlDiag(pos) == pos[1] > 0 /\ pos[2] > 0
CurlLeft(level, pos) ==
    /\ pos[1] > 0
    /\ pos[2] + 1 < Shl(GRID_SIZE, level)
    /\ pos[1] < Shl(GRID_SIZE, level)
CurlUp(level, pos) ==
    /\ pos[2] > 0
    /\ pos[1] + 1 < Shl(GRID_SIZE, level)
    /\ pos[2] < Shl(GRID_SIZE, level)

\* The texels apply_deltas addresses at pos.
apply_deltas_reads(level, pos) ==
    [div_here |-> Addr("divergence_error", pos, level),
     div_left |-> Addr("divergence_error", MinusX(pos), level),
     div_up |-> Addr("divergence_error", MinusY(pos), level),
     curl_diagonal |-> Addr("curl_error", MinusX(MinusY(pos)), level),
     curl_left |-> Addr("curl_error", MinusX(pos), level),
     curl_up |-> Addr("curl_error", MinusY(pos), level),
     here |-> Addr("field", pos, level)]

\* Those of them it reads.
apply_deltas_read_set(level, pos) ==
    LET a == apply_deltas_reads(level, pos)
    IN  {a.div_here, a.here}
        \cup (IF DivLeft(pos) THEN {a.div_left} ELSE {})
        \cup (IF DivUp(pos) THEN {a.div_up} ELSE {})
        \cup (IF CurlDiag(pos) THEN {a.curl_diagonal} ELSE {})
        \cup (IF CurlLeft(level, pos) THEN {a.curl_left} ELSE {})
        \cup (IF CurlUp(level, pos) THEN {a.curl_up} ELSE {})

apply_deltas_writes(level, pos) == {Addr("field", pos, level)}

apply_deltas(level, pos) ==
    LET a == apply_deltas_reads(level, pos)
        e == Read(a.div_here)
        d0 == Vec2(e, e)
        d1 == IF DivLeft(pos) THEN Vec2(d0.x - Read(a.div_left), d0.y) ELSE d0
        d2 == IF DivUp(pos) THEN Vec2(d1.x, d1.y - Read(a.div_up)) ELSE d1
        d3 == IF CurlDiag(pos)
              THEN LET c == Read(a.curl_diagonal)
                   IN  Vec2(d2.x - c * (-1), d2.y - c * 1)
              ELSE d2
        d4 == IF CurlLeft(level, pos) THEN Vec2(d3.x - Read(a.curl_left), d3.y) ELSE d3
        delta == IF CurlUp(level, pos) THEN Vec2(d4.x, d4.y - (-Read(a.curl_up))) ELSE d4
    IN  VAdd(Read(a.here), VDiv(delta, 4))

Twice(pos) == <<pos[1] * 2, pos[2] * 2>>

downscale_reads(tex, level, target) ==
    LET pos == Twice(target)
    IN  <<Addr(tex, pos, level - 1),
          Addr(tex, PlusX(pos), level - 1),
          Addr(tex, PlusY(pos), level - 1),
          Addr(tex, PlusX(PlusY(pos)), level - 1)>>

downscale_writes(level, target) ==
    {Addr("charges", target, level), Addr("magnets", target, level)}

\* Faulty variant: a downsample that averages the four children.
downscale_average(tex, level, target) ==
    LET a == downscale_reads(tex, level, target)
    IN  RoundDiv(Read(a[1]) + Read(a[2]) + Read(a[3]) + Read(a[4]), 4)

\* What downscale_charges_kernel writes to tex (charges or magnets) at target.
downscale_charges_kernel(tex, level, target) ==
    LET a == downscale_reads(tex, level, target)
    IN  Read(a[1]) + Read(a[2]) + Read(a[3]) + Read(a[4])

\* let factor = 1.0
factor == 1

Halved(pos) == <<pos[1] \div 2, pos[2] \div 2>>

\* Faulty variant: an upsample that interpolates between the texels of the
\* level it writes.
upscale_in_place_reads(level, pos) ==
    [coarse |-> Addr("field", Halved(pos), level + 1),
     coarse_right |-> Addr("field", PlusX(pos), level),
     coarse_below |-> Addr("field", PlusY(pos), level),
     here |-> Addr("field", pos, level)]

\* The texels upscale_field_kernel addresses at pos.
upscale_field_reads(level, pos) ==
    LET read_pos == Halved(pos)
    IN  [coarse |-> Addr("field", read_pos, level + 1),
         coarse_right |-> Addr("field", PlusX(read_pos), level + 1),
         coarse_below |-> Addr("field", PlusY(read_pos), level + 1),
         here |-> Addr("field", pos, level)]

\* Those of them it reads.
upscale_field_read_set(level, pos) ==
    LET a == upscale_field_reads(level, pos)
    IN  {a.coarse, a.here}
        \cup (IF pos[1] % 2 = 1 THEN {a.coarse_right} ELSE {})
        \cup (IF pos[2] % 2 = 1 THEN {a.coarse_below} ELSE {})

upscale_field_writes(level, pos) == {Addr("field", pos, level)}

\* Faulty variant: an upsample that takes the nearest coarse texel, without
\* interpolation.
upscale_nearest(level, pos) ==
    LET a == upscale_field_reads(level, pos)
    IN  VAdd(VScale(VDiv(Read(a.coarse), 2), factor),
             VScale(Read(a.here), 1 - factor))

upscale_field_kernel(level, pos) ==
    LET a == upscale_field_reads(level, pos)
        v0 == Read(a.coarse)
        vx == IF pos[1] % 2 = 1
              THEN RoundDiv(v0.x + Read(a.coarse_right).x, 2) ELSE v0.x
        vy == IF pos[2] % 2 = 1
              THEN RoundDiv(v0.y + Read(a.coarse_below).y, 2) ELSE v0.y
        ov == Read(a.here)
    IN  VAdd(VScale(VDiv(Vec2(vx, vy), 2), factor), VScale(ov, 1 - factor))


(***************************************************************************)
(* Particle transport.                                                     *)
(***************************************************************************)
\* let step = 10.0
step == 10

\* let vel = particle_velocity.read(pos) + field.read(pos.extend(0)) * 1.0 / 30.0
update_kernel_vel(pos) ==
    VAdd(particle_velocity[pos], VDiv(VScale(Read(Addr("field", pos, 0)), 1), 30))

\* new_pos of the invocation at pos, in a grid n wide (it may lie outside).
\* abs * sign along one axis (c = 0 for x, 1 for y), abs being the magnitude
\* of the movement m along it rounded up with probability frac.
update_kernel_steps(n, pos, t, c, m) ==
    ((IF RandBelow(n, pos, t, c, Abs(m) % Quantum) THEN 1 ELSE 0)
        + Abs(m) \div Quantum)
    * (IF m > 0 THEN 1 ELSE -1)

update_kernel_moved(n, pos, t, movement) ==
    <<pos[1] + update_kernel_steps(n, pos, t, 0, movement.x),
      pos[2] + update_kernel_steps(n, pos, t, 1, movement.y)>>

update_kernel_new_pos(n, pos, dt, t) ==
    update_kernel_moved(n, pos, t, VScale(update_kernel_vel(pos), dt))

\* Faulty variant: an early return that lets the far edge through.
OutOfGridInclusive(n, new_pos) ==
    \/ new_pos[1] < 0
    \/ new_pos[1] > n
    \/ new_pos[2] < 0
    \/ new_pos[2] > n

\* The early return of update_kernel.
OutOfGrid(n, new_pos) ==
    \/ new_pos[1] < 0
    \/ new_pos[1] >= n
    \/ new_pos[2] < 0
    \/ new_pos[2] >= n

\* The writes to particles of the invocation at pos, in program order, given
\* the texture P it reads.
update_kernel_moves(n, pos, new_pos) ==
    IF OutOfGrid(n, new_pos) THEN <<>>
    ELSE IF new_pos # pos
         THEN << <<new_pos, 1>>, <<pos, 0>> >>
         ELSE <<>>

update_kernel_writes(n, P, pos, dt, t) ==
    IF P[pos] = 1
    THEN update_kernel_moves(n, pos, update_kernel_new_pos(n, pos, dt, t))
    ELSE <<>>

RECURSIVE WriteAll(_, _, _)
WriteAll(P, writes, i) ==
    IF i > Len(writes) THEN P
    ELSE WriteAll([P EXCEPT ![writes[i][1]] = writes[i][2]], writes, i + 1)

\* particles after the invocation of update_kernel at pos.
update_kernel(n, P, pos, dt, t) ==
    WriteAll(P, update_kernel_writes(n, P, pos, dt, t), 1)

\* The cells of an n x n dispatch in row-major order, or in its reverse.
CellOrder(n, order) ==
    [k \in 1 .. (n * n) |->
        LET j == IF order = "forward" THEN k - 1 ELSE n * n - k
        IN  <<j % n, j \div n>>]

DispatchOrders == {"forward", "reverse"}

\* particles after the invocations at cells[lo .. hi] have run one after
\* another in that order (the first half, then the second).  No invocation
\* writes to a grid that holds no particle.
RECURSIVE update_dispatch(_, _, _, _, _, _, _)
update_dispatch(n, P, cells, lo, hi, dt, t) ==
    IF lo > hi \/ \A p \in DOMAIN P : P[p] = 0 THEN P
    ELSE IF lo = hi THEN update_kernel(n, P, cells[lo], dt, t)
    ELSE LET mid == (lo + hi) \div 2
         IN  update_dispatch(n, update_dispatch(n, P, cells, lo, mid, dt, t),
                             cells, mid + 1, hi, dt, t)

(***************************************************************************)
(* Input handling.                                                         *)
(***************************************************************************)
MouseButton == {"Left", "Right", "Middle"}
\* KeyL, KeyK and KeyD change viewed_layer and view, which only draw_kernel
\* reads: the display is not modelled.
KeyCode == {"KeyM"}

\* Pointer positions in pixels the cursor moves to: one in cell (1, 1), one in
\* the last cell of the first row.
CursorPositions ==
    {<<SCALING + 4, SCALING + 4>>, <<SCALING * GRID_SIZE - 1, 3>>}

Runtime_default ==
    [cursor_pos |-> <<0, 0>>, t |-> 0, activate_multigrid |-> TRUE]

\* write_charge_kernel / write_magnet_kernel over [1, 1, 1].
write_kernel(tex, pos, value) ==
    [tex EXCEPT ![0] = [@ EXCEPT ![pos] = value]]

\* update_cursor, given the textures it finds.
update_cursor(buttons, cursor_pos, C, M, P) ==
    LET pos == <<cursor_pos[1] \div SCALING, cursor_pos[2] \div SCALING>>
    IN  [charges |-> IF "Left" \in buttons
                     THEN write_kernel(C, pos, -F32(CHARGE)) ELSE C,
         magnets |-> IF "Right" \in buttons
                     THEN write_kernel(M, pos, F32(CHARGE)) ELSE M,
         particles |-> IF "Middle" \in buttons
                       THEN [P EXCEPT ![pos] = 1] ELSE P]

update_keyboard(key, r) ==
    CASE key = "KeyM" -> [r EXCEPT !.activate_multigrid = ~@]
      [] OTHER -> r

(***************************************************************************)
(* The command list of one tick.                                           *)
(***************************************************************************)
Command(kernel, size, args) == [kernel |-> kernel, size |-> size, args |-> args]

LevelSize(i) == Shr(GRID_SIZE, i)

\* Faulty variant: a downsample loop that runs from the coarsest level down.
DownscaleCommandsDecreasing ==
    [i \in 1 .. (DOWNSCALE_COUNT - 1) |->
        Command("downscale_charges_kernel",
                <<LevelSize(DOWNSCALE_COUNT - i), LevelSize(DOWNSCALE_COUNT - i)>>,
                <<DOWNSCALE_COUNT - i>>)]

\* for i in 1..DOWNSCALE_COUNT
DownscaleCommands ==
    [i \in 1 .. (DOWNSCALE_COUNT - 1) |->
        Command("downscale_charges_kernel", <<LevelSize(i), LevelSize(i)>>, <<i>>)]

\* for _ in 0..16, starting with parity par and k iterations to go.
RECURSIVE RelaxCommands(_, _, _)
RelaxCommands(i, par, k) ==
    IF k = 0 THEN <<>>
    ELSE LET size == LevelSize(i)
         IN  << Command("compute_divergence", <<size, size>>, <<i, par>>),
                Command("compute_curl", <<size - 1, size - 1>>, <<i>>),
                Command("apply_deltas", <<size + 1, size + 1>>, <<i>>) >>
             \o RelaxCommands(i, 1 - par, k - 1)

\* parity after k iterations.
RECURSIVE ParityAfter(_, _)
ParityAfter(par, k) == IF k = 0 THEN par ELSE ParityAfter(1 - par, k - 1)

\* Faulty variant: a level loop that upsamples whether or not multigrid is
\* active.
RECURSIVE LevelCommandsUnconditional(_, _, _)
LevelCommandsUnconditional(i, multigrid, par) ==
    LET size == LevelSize(i)
        up == IF i < DOWNSCALE_COUNT - 1
              THEN << Command("upscale_field_kernel", <<size, size>>, <<i>>) >>
              ELSE <<>>
        block == up \o RelaxCommands(i, par, ITERATIONS)
    IN  IF i = 0 THEN block
        ELSE block \o LevelCommandsUnconditional(i - 1, multigrid,
                                                ParityAfter(par, ITERATIONS))

\* for i in (0..DOWNSCALE_COUNT).rev(), from level i down.
RECURSIVE LevelCommands(_, _, _)
LevelCommands(i, multigrid, par) ==
    LET size == LevelSize(i)
        up == IF multigrid /\ i < DOWNSCALE_COUNT - 1
              THEN << Command("upscale_field_kernel", <<size, size>>, <<i>>) >>
              ELSE <<>>
        block == up \o RelaxCommands(i, par, ITERATIONS)
    IN  IF i = 0 THEN block
        ELSE block \o LevelCommands(i - 1, multigrid, ParityAfter(par, ITERATIONS))

TickCommands(r, par) ==
    DownscaleCommands
    \o LevelCommands(DOWNSCALE_COUNT - 1, r.activate_multigrid, par)
    \o << Command("update_kernel", <<GRID_SIZE, GRID_SIZE>>, <<step, r.t>>),
          Command("update_trail_kernel", <<GRID_SIZE, GRID_SIZE>>, <<>>),
          Command("draw_kernel", <<GRID_SIZE * SCALING, GRID_SIZE * SCALING>>, <<>>) >>

(***************************************************************************)
(* Events of the event loop.                                               *)
(***************************************************************************)
\* The stream has executed everything submitted to it.
Idle == pc = Len(commands)

InputAllowed == Idle /\ inputs < MaxInputs

CursorMoved ==
    /\ InputAllowed
    /\ \E position \in CursorPositions :
          LET w == update_cursor(active_buttons, position, charges, magnets, particles)
          IN  /\ rt' = [rt EXCEPT !.cursor_pos = position]
              /\ charges' = w.charges
              /\ magnets' = w.magnets
              /\ particles' = w.particles
    /\ inputs' = inputs + 1
    /\ UNCHANGED <<field, divergence_error, curl_error, particle_velocity, junk,
                   active_buttons, parity, commands, pc, pending, in_flight, particles_before>>

MouseInput ==
    /\ InputAllowed
    /\ \E button \in MouseButton, state \in {"Pressed", "Released"} :
          LET now == IF state = "Pressed"
                     THEN active_buttons \cup {button}
                     ELSE active_buttons \ {button}
              w == update_cursor(now, rt.cursor_pos, charges, magnets, particles)
          IN  /\ active_buttons' = now
              /\ charges' = w.charges
              /\ magnets' = w.magnets
              /\ particles' = w.particles
    /\ inputs' = inputs + 1
    /\ UNCHANGED <<field, divergence_error, curl_error, particle_velocity, junk,
                   rt, parity, commands, pc, pending, in_flight, particles_before>>

KeyboardInput ==
    /\ InputAllowed
    /\ \E key \in KeyCode, state \in {"Pressed", "Released"} :
          /\ state = "Pressed"
          /\ rt' = update_keyboard(key, rt)
    /\ inputs' = inputs + 1
    /\ UNCHANGED <<textures, junk, active_buttons, parity, commands, pc,
                   pending, in_flight, particles_before>>

\* WindowEvent::RedrawRequested once dt * rt.t < start.elapsed().
RedrawRequested ==
    /\ Idle
    /\ rt.t < MaxTicks
    /\ LET r == [rt EXCEPT !.t = @ + 1]
           w == update_cursor(active_buttons, r.cursor_pos, charges, magnets, particles)
       IN  /\ rt' = r
           /\ charges' = w.charges
           /\ magnets' = w.magnets
           /\ particles' = w.particles
           /\ commands' = TickCommands(r, parity)
           /\ parity' = ParityAfter(parity, DOWNSCALE_COUNT * ITERATIONS)
    /\ pc' = 0
    /\ UNCHANGED <<field, divergence_error, curl_error, particle_velocity, junk,
                   active_buttons, inputs, pending, in_flight, particles_before>>

(***************************************************************************)
(* The stream executes the next command: one whole dispatch.               *)
(***************************************************************************)
Current == commands[pc + 1]

Running(kernel) == pc < Len(commands) /\ Current.kernel = kernel

Range(c) == Cells(c.size[1], c.size[2])

SolverKernels ==
    {"downscale_charges_kernel", "upscale_field_kernel", "compute_divergence",
     "compute_curl", "apply_deltas"}

\* The texels the invocation of command c at pos reads, and those it writes.
ReadSet(c, pos) ==
    CASE c.kernel = "downscale_charges_kernel" ->
            {downscale_reads("charges", c.args[1], pos)[k] : k \in 1 .. 4}
            \cup {downscale_reads("magnets", c.args[1], pos)[k] : k \in 1 .. 4}
      [] c.kernel = "upscale_field_kernel" -> upscale_field_read_set(c.args[1], pos)
      [] c.kernel = "compute_divergence" -> Values(compute_divergence_reads(c.args[1], pos))
      [] c.kernel = "compute_curl" -> Values(compute_curl_reads(c.args[1], pos))
      [] c.kernel = "apply_deltas" -> apply_deltas_read_set(c.args[1], pos)

WriteSet(c, pos) ==
    CASE c.kernel = "downscale_charges_kernel" -> downscale_writes(c.args[1], pos)
      [] c.kernel = "upscale_field_kernel" -> upscale_field_writes(c.args[1], pos)
      [] c.kernel = "compute_divergence" -> compute_divergence_writes(c.args[1], pos)
      [] c.kernel = "compute_curl" -> compute_curl_writes(c.args[1], pos)
      [] c.kernel = "apply_deltas" -> apply_deltas_writes(c.args[1], pos)

\* tex with layer level rewritten by a dispatch over range that writes
\* Value(pos) at pos.
Dispatched(tex, level, range, Value(_)) ==
    [tex EXCEPT ![level] =
        [p \in DOMAIN tex[level] |->
            IF p \in range THEN Value(p) ELSE tex[level][p]]]

ExecDownscale ==
    /\ Running("downscale_charges_kernel")
    /\ LET level == Current.args[1]
           C(p) == downscale_charges_kernel("charges", level, p)
           M(p) == downscale_charges_kernel("magnets", level, p)
       IN  /\ charges' = Dispatched(charges, level, Range(Current), C)
           /\ magnets' = Dispatched(magnets, level, Range(Current), M)
    /\ pc' = pc + 1
    /\ UNCHANGED <<field, divergence_error, curl_error, particles,
                   particle_velocity, junk, rt, active_buttons, parity, commands,
                   inputs, pending, in_flight, particles_before>>

ExecUpscale ==
    /\ Running("upscale_field_kernel")
    /\ LET level == Current.args[1]
           V(p) == upscale_field_kernel(level, p)
       IN  field' = Dispatched(field, level, Range(Current), V)
    /\ pc' = pc + 1
    /\ UNCHANGED <<charges, magnets, divergence_error, curl_error, particles,
                   particle_velocity, junk, rt, active_buttons, parity, commands,
                   inputs, pending, in_flight, particles_before>>

ExecDivergence ==
    /\ Running("compute_divergence")
    /\ LET level == Current.args[1]
           offset == Current.args[2]
           V(p) == compute_divergence(level, offset, p)
       IN  divergence_error' = Dispatched(divergence_error, level, Range(Current), V)
    /\ pc' = pc + 1
    /\ UNCHANGED <<charges, magnets, field, curl_error, particles,
                   particle_velocity, junk, rt, active_buttons, parity, commands,
                   inputs, pending, in_flight, particles_before>>

ExecCurl ==
    /\ Running("compute_curl")
    /\ LET level == Current.args[1]
           V(p) == compute_curl(level, p)
       IN  curl_error' = Dispatched(curl_error, level, Range(Current), V)
    /\ pc' = pc + 1
    /\ UNCHANGED <<charges, magnets, field, divergence_error, particles,
                   particle_velocity, junk, rt, active_buttons, parity, commands,
                   inputs, pending, in_flight, particles_before>>

ExecApplyDeltas ==
    /\ Running("apply_deltas")
    /\ LET level == Current.args[1]
           V(p) == apply_deltas(level, p)
       IN  field' = Dispatched(field, level, Range(Current), V)
    /\ pc' = pc + 1
    /\ UNCHANGED <<charges, magnets, divergence_error, curl_error, particles,
                   particle_velocity, junk, rt, active_buttons, parity, commands,
                   inputs, pending, in_flight, particles_before>>

\* The invocations of update_kernel race on particles: the dispatch leaves
\* what one of the orders of its invocations leaves.
ExecUpdate ==
    /\ Running("update_kernel")
    /\ \E order \in DispatchOrders :
          particles' = update_dispatch(GRID_SIZE, particles,
                                       CellOrder(GRID_SIZE, order),
                                       1, GRID_SIZE * GRID_SIZE,
                                       Current.args[1], Current.args[2])
    /\ particles_before' = particles
    /\ pc' = pc + 1
    /\ UNCHANGED <<charges, magnets, field, divergence_error, curl_error,
                   particle_velocity, junk, rt, active_buttons, parity, commands,
                   inputs, pending, in_flight>>

\* update_trail_kernel and draw_kernel write trail and display only.
ExecDisplay ==
    /\ \/ Running("update_trail_kernel")
       \/ Running("draw_kernel")
    /\ pc' = pc + 1
    /\ UNCHANGED <<textures, junk, rt, active_buttons, parity, commands,
                   inputs, pending, in_flight, particles_before>>

(***************************************************************************)
(* The program.                                                            *)
(***************************************************************************)
Junk == {0, 1}

Init ==
    /\ junk \in Junk
    /\ charges = Tex3d(GRID_SIZE, junk)
    /\ magnets = Tex3d(GRID_SIZE, junk)
    /\ field = Tex3d(GRID_SIZE + 1, Vec2(junk, junk))
    /\ divergence_error = Tex3d(GRID_SIZE + 1, junk)
    /\ curl_error = Tex3d(GRID_SIZE - 1, junk)
    /\ particles = Tex2d(GRID_SIZE, 0)
    /\ particle_velocity = Tex2d(GRID_SIZE, Vec2(junk, junk))
    /\ rt = Runtime_default
    /\ active_buttons = {}
    /\ parity = 0
    /\ commands = <<>>
    /\ pc = 0
    /\ inputs = 0
    /\ pending = {}
    /\ in_flight = <<>>
    /\ particles_before = particles

Next ==
    \/ CursorMoved
    \/ MouseInput
    \/ KeyboardInput
    \/ RedrawRequested
    \/ ExecDownscale
    \/ ExecUpscale
    \/ ExecDivergence
    \/ ExecCurl
    \/ ExecApplyDeltas
    \/ ExecUpdate
    \/ ExecDisplay

Spec == Init /\ [][Next]_vars


(***************************************************************************)
(* One dispatch of update_kernel, invocation by invocation: the            *)
(* invocations of a dispatch run in any order and interleave at their      *)
(* texture reads and writes.  The grid is TransportGridSize wide.          *)
(***************************************************************************)
TransportCells == Cells(TransportGridSize, TransportGridSize)

\* Field values (in field units) that move a particle by +1, 0 or -1/2 cell per
\* tick once scaled by 1/30 and dt.
TransportFieldValues ==
    {Vec2(0, 0), Vec2(F32(3), 0), Vec2(0, F32(3)),
     Vec2(-F32(3), -(F32(3) \div 2))}

Occupied(P) == {p \in DOMAIN P : P[p] = 1}

TransportInit ==
    /\ junk \in Junk
    /\ charges = <<>>
    /\ magnets = <<>>
    /\ divergence_error = <<>>
    /\ curl_error = <<>>
    /\ \E a \in TransportFieldValues, b \in TransportFieldValues :
          field = [l \in {0} |->
                     [p \in Cells(TransportGridSize + 1, TransportGridSize + 1) |->
                         IF (p[1] + p[2]) % 2 = 0 THEN a ELSE b]]
    /\ particles \in [TransportCells -> {0, 1}]
    /\ Cardinality(Occupied(particles)) <= MaxParticles
    /\ particle_velocity = Tex2d(TransportGridSize, Vec2(junk, junk))
    /\ \E t \in 1 .. MaxTicks : rt = [Runtime_default EXCEPT !.t = t]
    /\ active_buttons = {}
    /\ parity = 0
    /\ commands = << Command("update_kernel",
                             <<TransportGridSize, TransportGridSize>>,
                             <<step, rt.t>>) >>
    /\ pc = 0
    /\ inputs = 0
    /\ pending = TransportCells
    /\ in_flight = <<>>
    /\ particles_before = particles

\* The invocation at pos starts: it reads particles at pos and, finding a
\* particle, computes the writes it will make.
InvokeRead ==
    /\ Running("update_kernel")
    /\ \E pos \in pending :
          LET w == update_kernel_writes(TransportGridSize, particles, pos,
                                        Current.args[1], Current.args[2])
          IN  /\ pending' = pending \ {pos}
              /\ in_flight' = IF w = <<>> THEN in_flight
                              ELSE [q \in DOMAIN in_flight \cup {pos} |->
                                      IF q = pos THEN w ELSE in_flight[q]]
    /\ UNCHANGED <<textures, junk, rt, active_buttons, parity, commands, pc,
                   inputs, particles_before>>

\* A started invocation makes its next write.
InvokeWrite ==
    /\ Running("update_kernel")
    /\ \E pos \in DOMAIN in_flight :
          LET w == in_flight[pos]
          IN  /\ particles' = WriteAll(particles, <<w[1]>>, 1)
              /\ in_flight' = IF Len(w) = 1
                              THEN [q \in DOMAIN in_flight \ {pos} |-> in_flight[q]]
                              ELSE [in_flight EXCEPT ![pos] = Tail(w)]
    /\ UNCHANGED <<charges, magnets, field, divergence_error, curl_error,
                   particle_velocity, junk, rt, active_buttons, parity, commands,
                   pc, inputs, pending, particles_before>>

\* Every invocation has returned: the dispatch is complete.
CompleteUpdate ==
    /\ Running("update_kernel")
    /\ pending = {}
    /\ DOMAIN in_flight = {}
    /\ pc' = pc + 1
    /\ UNCHANGED <<textures, junk, rt, active_buttons, parity, commands,
                   inputs, pending, in_flight, particles_before>>

TransportNext ==
    \/ InvokeRead
    \/ InvokeWrite
    \/ CompleteUpdate

SpecTransport == TransportInit /\ [][TransportNext]_vars

(***************************************************************************)
(* Properties of particle transport (SpecTransport).                       *)
(***************************************************************************)
\* The cell the invocation at pos computes as its target in the running (or
\* just completed) dispatch, and the cell its particle is in afterwards.
TransportTarget(pos) ==
    update_kernel_new_pos(TransportGridSize, pos,
                          commands[1].args[1], commands[1].args[2])

Destination(pos) ==
    IF TransportTarget(pos) \in TransportCells THEN TransportTarget(pos) ELSE pos

\* No two particles of P compute the same destination.
NoCollision(P) ==
    \A p \in Occupied(P), q \in Occupied(P) :
        p # q => /\ TransportTarget(p) # TransportTarget(q)
                 /\ Destination(p) # Destination(q)

\* The invocation at pos starts in this step.
Starts(pos) == pos \in pending /\ pos \notin pending'

\* The invocation at pos makes its last write in this step.
Returns(pos) == pos \in DOMAIN in_flight /\ pos \notin DOMAIN in_flight'

\* C1: when no two particles present at the start of a dispatch of
\* update_kernel compute the same destination cell, the dispatch, whatever the
\* order of its invocations, leaves as many occupied cells as it found.
C1_Conserved ==
    (pc = 1 /\ NoCollision(particles_before))
        => Cardinality(Occupied(particles)) = Cardinality(Occupied(particles_before))

\* C6: an invocation of update_kernel that finds a particle whose target lies
\* outside [0, N) x [0, N) makes no write at all, and every write an
\* invocation has still to make addresses a cell inside the grid.
C6_Contained ==
    /\ [][\A pos \in TransportCells :
            (Starts(pos) /\ particles[pos] = 1
                         /\ TransportTarget(pos) \notin TransportCells)
                => (pos \notin DOMAIN in_flight' /\ particles' = particles)]_vars
    /\ [](\A pos \in DOMAIN in_flight :
            \A i \in DOMAIN in_flight[pos] :
                in_flight[pos][i][1] \in TransportCells)

\* A completed dispatch in which a particle whose target lay outside the grid
\* is still where it was, while another particle has moved.
C6_Witness ==
    /\ pc = 1
    /\ particles # particles_before
    /\ \E pos \in Occupied(particles_before) :
          /\ TransportTarget(pos) \notin TransportCells
          /\ particles[pos] = 1

\* C10: an invocation of update_kernel that finds a particle whose target is
\* inside the grid stores velocity[pos] + field[0][pos] * gain, at the target
\* when the particle moves and at pos when it stays.
C10_VelocityStored ==
    [][\A pos \in TransportCells :
          /\ (Starts(pos) /\ particles[pos] = 1 /\ TransportTarget(pos) = pos)
                => particle_velocity'[pos] = update_kernel_vel(pos)
          /\ Returns(pos)
                => particle_velocity'[TransportTarget(pos)] = update_kernel_vel(pos)]_vars

(***************************************************************************)
(* Properties of the solver and its schedule (Spec).                       *)
(***************************************************************************)
\* A tick has been submitted and the stream has not finished it.
InTick == commands # <<>> /\ pc < Len(commands)

\* The command the stream executed last.
Last == commands[pc]

Executed(kernel) == commands # <<>> /\ pc > 0 /\ Last.kernel = kernel

SumOfChildren(tex, L, p) ==
    tex[L - 1][Twice(p)] + tex[L - 1][PlusX(Twice(p))]
    + tex[L - 1][PlusY(Twice(p))] + tex[L - 1][PlusX(PlusY(Twice(p)))]

\* C2: once the downsample phase of a tick is over, at every level L >= 1 each
\* cell of charges and of magnets holds the sum of its four children at level
\* L - 1, whatever injection wrote to level 0 before the tick.
C2_PyramidSum ==
    (InTick /\ pc >= DOWNSCALE_COUNT - 1)
        => \A L \in 1 .. (DOWNSCALE_COUNT - 1) :
              \A p \in Cells(Shr(GRID_SIZE, L), Shr(GRID_SIZE, L)) :
                  /\ charges[L][p] = SumOfChildren(charges, L, p)
                  /\ magnets[L][p] = SumOfChildren(magnets, L, p)

\* The downsample phase has just ended on a pyramid whose level 0 holds an
\* injected charge among texels nothing has written.
C2_Witness ==
    /\ InTick
    /\ pc = DOWNSCALE_COUNT - 1
    /\ junk = 1
    /\ \E p \in Cells(GRID_SIZE, GRID_SIZE) : charges[0][p] = -F32(CHARGE)
    /\ charges[DOWNSCALE_COUNT - 1][<<0, 0>>] # 0

\* The place of each level's block in the command list of a tick.
Upscaled(multigrid, L) ==
    IF multigrid /\ L < DOWNSCALE_COUNT - 1 THEN 1 ELSE 0

BlockLen(multigrid, L) == Upscaled(multigrid, L) + 3 * ITERATIONS

RECURSIVE BlockStart(_, _)
BlockStart(multigrid, L) ==
    IF L >= DOWNSCALE_COUNT - 1 THEN DOWNSCALE_COUNT - 1
    ELSE BlockStart(multigrid, L + 1) + BlockLen(multigrid, L + 1)

IsCommand(c, kernel, size, L) ==
    c.kernel = kernel /\ c.size = <<size, size>> /\ c.args[1] = L

\* What update_cursor leaves at the cursor's cell.
Injected ==
    LET cell == <<rt.cursor_pos[1] \div SCALING, rt.cursor_pos[2] \div SCALING>>
    IN  /\ "Left" \in active_buttons => charges[0][cell] = -F32(CHARGE)
        /\ "Right" \in active_buttons => magnets[0][cell] = F32(CHARGE)
        /\ "Middle" \in active_buttons => particles[cell] = 1

\* C3: the commands of a tick are, after injection at the cursor: the
\* downsamples of levels 1 .. DOWNSCALE_COUNT - 1 in increasing order; then,
\* from the coarsest level down to level 0, an upsample into the level exactly
\* when multigrid is active and the level is not the coarsest, followed by
\* ITERATIONS rounds of compute_divergence, compute_curl, apply_deltas at the
\* level; then update_kernel, update_trail_kernel and draw_kernel.
C3_Schedule ==
    InTick =>
        LET m == rt.activate_multigrid
            n == Len(commands)
        IN  /\ pc = 0 => Injected
            /\ n = BlockStart(m, 0) + BlockLen(m, 0) + 3
            /\ \A i \in 1 .. (DOWNSCALE_COUNT - 1) :
                  IsCommand(commands[i], "downscale_charges_kernel",
                            Shr(GRID_SIZE, i), i)
            /\ \A L \in Levels :
                  LET s == BlockStart(m, L) + Upscaled(m, L)
                      size == Shr(GRID_SIZE, L)
                  IN  /\ Upscaled(m, L) = 1
                            => IsCommand(commands[s], "upscale_field_kernel", size, L)
                      /\ \A k \in 0 .. (ITERATIONS - 1) :
                            /\ IsCommand(commands[s + 3 * k + 1],
                                         "compute_divergence", size, L)
                            /\ IsCommand(commands[s + 3 * k + 2],
                                         "compute_curl", size - 1, L)
                            /\ IsCommand(commands[s + 3 * k + 3],
                                         "apply_deltas", size + 1, L)
            /\ commands[n - 2].kernel = "update_kernel"
            /\ commands[n - 1].kernel = "update_trail_kernel"
            /\ commands[n].kernel = "draw_kernel"
            /\ ~m => \A i \in 1 .. n : commands[i].kernel # "upscale_field_kernel"

\* A tick submitted with multigrid switched off.
C3_Witness ==
    /\ InTick
    /\ pc = 0
    /\ ~rt.activate_multigrid

TextureNames == {"charges", "magnets", "field", "divergence_error", "curl_error"}

\* The texels of the texture called name that this step changes.
Changed(name) ==
    UNION {IF Texture(name)[l] = Texture(name)'[l] THEN {}
           ELSE {Addr(name, p, l) :
                    p \in {q \in DOMAIN Texture(name)[l] :
                              Texture(name)[l][q] # Texture(name)'[l][q]}} :
           l \in Levels}

\* C4: in a dispatch of a solver kernel every invocation writes texels at its
\* own cell only and reads no texel that the invocation of another cell
\* writes; the dispatch changes no texel outside its invocations' write sets,
\* which lie in divergence_error for compute_divergence, in curl_error for
\* compute_curl and in field for apply_deltas.
C4_NoHazard ==
    /\ []((InTick /\ Current.kernel \in SolverKernels) =>
            /\ \A pos \in Range(Current) :
                  /\ \A w \in WriteSet(Current, pos) : w.pos = pos
                  /\ \A a \in ReadSet(Current, pos) :
                        (a.pos # pos /\ a.pos \in Range(Current))
                            => a \notin WriteSet(Current, a.pos)
                  /\ Current.kernel = "compute_divergence"
                        => \A w \in WriteSet(Current, pos) : w.tex = "divergence_error"
                  /\ Current.kernel = "compute_curl"
                        => \A w \in WriteSet(Current, pos) : w.tex = "curl_error"
                  /\ Current.kernel = "apply_deltas"
                        => \A w \in WriteSet(Current, pos) : w.tex = "field")
    /\ [][(InTick /\ Current.kernel \in SolverKernels) =>
            /\ UNCHANGED <<particles, particle_velocity>>
            /\ \A name \in TextureNames :
                  \A a \in Changed(name) : a \in WriteSet(Current, a.pos)]_vars

\* apply_deltas is about to run at level 0, over cells that read their
\* neighbours' residuals.
C4_Witness ==
    /\ InTick
    /\ Current.kernel = "apply_deltas"
    /\ Current.args[1] = 0
    /\ rt.t = MaxTicks

\* The extent of a solver buffer at level L, per axis.
Extent(tex, L) ==
    CASE tex = "field" -> Shr(GRID_SIZE, L) + 1
      [] tex = "divergence_error" -> Shr(GRID_SIZE, L)
      [] tex = "curl_error" -> Shr(GRID_SIZE, L) - 1

\* C5: every read of field, divergence_error and curl_error that a cell of a
\* compute_divergence, compute_curl or apply_deltas dispatch makes resolves
\* inside the extent the buffer has at the dispatch's level, and inside the
\* texture as allocated.
C5_ReadsContained ==
    (InTick /\ Current.kernel \in {"compute_divergence", "compute_curl", "apply_deltas"})
        => \A pos \in Range(Current) :
              \A a \in ReadSet(Current, pos) :
                  a.tex \in {"field", "divergence_error", "curl_error"}
                      => /\ a.pos \in Cells(Extent(a.tex, a.level), Extent(a.tex, a.level))
                         /\ Allocated(a)

\* C7 as the specification states it: upsampling into level L writes, at
\* every cell, the coarse value itself along an even coordinate and the mean
\* of the two coarse neighbours along an odd one.
C7_Copied ==
    [][Running("upscale_field_kernel") =>
          \E L \in Levels :
              /\ L = Current.args[1]
              /\ \A pos \in Range(Current) :
                    LET h == Halved(pos)
                    IN  /\ field'[L][pos].x =
                              IF pos[1] % 2 = 0 THEN field[L + 1][h].x
                              ELSE RoundDiv(field[L + 1][h].x
                                            + field[L + 1][PlusX(h)].x, 2)
                        /\ field'[L][pos].y =
                              IF pos[2] % 2 = 0 THEN field[L + 1][h].y
                              ELSE RoundDiv(field[L + 1][h].y
                                            + field[L + 1][PlusY(h)].y, 2)]_vars

\* C7: upsampling into level L writes, at every cell, half the coarse value
\* along an even coordinate and half the mean of the two coarse neighbours
\* along an odd one, each axis independently.
C7_Halved ==
    [][Running("upscale_field_kernel") =>
          \E L \in Levels :
              /\ L = Current.args[1]
              /\ \A pos \in Range(Current) :
                    LET h == Halved(pos)
                    IN  /\ field'[L][pos].x =
                              IF pos[1] % 2 = 0 THEN RoundDiv(field[L + 1][h].x, 2)
                              ELSE RoundDiv(RoundDiv(field[L + 1][h].x
                                                     + field[L + 1][PlusX(h)].x, 2), 2)
                        /\ field'[L][pos].y =
                              IF pos[2] % 2 = 0 THEN RoundDiv(field[L + 1][h].y, 2)
                              ELSE RoundDiv(RoundDiv(field[L + 1][h].y
                                                     + field[L + 1][PlusY(h)].y, 2), 2)]_vars

\* An upsample has just written a cell of odd x whose value is neither zero
\* nor half its nearest coarse texel's.
C7_Witness ==
    /\ Executed("upscale_field_kernel")
    /\ \E pos \in Cells(Last.size[1], Last.size[2]) :
          /\ pos[1] % 2 = 1
          /\ field[Last.args[1]][pos].x # 0
          /\ field[Last.args[1]][pos].x
                # RoundDiv(field[Last.args[1] + 1][Halved(pos)].x, 2)

\* The divergence residual of a cell, and the sum of its squares over the
\* first x cells of row y, and over the first y rows, of level L.
Residual(L, pos) ==
    LET a == compute_divergence_reads(L, pos)
    IN  Read(a.right).x + Read(a.below).y - Read(a.here).x - Read(a.here).y
        - Read(a.charge)

RECURSIVE RowEnergy(_, _, _)
RowEnergy(L, y, x) ==
    IF x = 0 THEN 0
    ELSE Residual(L, <<x - 1, y>>) * Residual(L, <<x - 1, y>>)
         + RowEnergy(L, y, x - 1)

RECURSIVE RowsEnergy(_, _)
RowsEnergy(L, y) ==
    IF y = 0 THEN 0
    ELSE RowEnergy(L, y - 1, Shr(GRID_SIZE, L)) + RowsEnergy(L, y - 1)

Energy(L) == RowsEnergy(L, Shr(GRID_SIZE, L))

NoMagnets(L) ==
    \A p \in Cells(Shr(GRID_SIZE, L), Shr(GRID_SIZE, L)) : magnets[L][p] = 0

\* C8: at a level with no magnet source and no upsampling into it, an
\* iteration of compute_divergence, compute_curl and apply_deltas that starts
\* from a field with a non-zero divergence residual strictly decreases the sum
\* of squared residuals over the level (the residuals change in the
\* iteration's apply_deltas alone).
C8_Shrinks ==
    [][\A L \in Levels :
          (/\ Running("apply_deltas")
           /\ Current.args[1] = L
           /\ junk = 0
           /\ NoMagnets(L)
           /\ (L = DOWNSCALE_COUNT - 1 \/ ~rt.activate_multigrid)
           /\ Energy(L) # 0)
              => Energy(L)' < Energy(L)]_vars

\* apply_deltas is running at level L.
Relaxing(L) == Running("apply_deltas") /\ Current.args[1] = L

\* C9 as the specification states it: no step but a level's own relaxation
\* changes the level's field, at any level.
C9_NeverOverwritten ==
    [][\A L \in Levels : ~Relaxing(L) => field'[L] = field[L]]_vars

\* C9: the field of the coarsest level, and of every level while multigrid is
\* off, is changed by the level's own relaxation alone, so that a tick's
\* relaxation starts from what the previous tick left; with multigrid on, the
\* only other step that changes a finer level's field is the upsample into it.
C9_CarriedOver ==
    [][\A L \in Levels :
          /\ (~Relaxing(L) /\ (L = DOWNSCALE_COUNT - 1 \/ ~rt.activate_multigrid))
                => field'[L] = field[L]
          /\ (~Relaxing(L) /\ field'[L] # field[L])
                => (Running("upscale_field_kernel") /\ Current.args[1] = L)]_vars

\* The second tick starts relaxing the coarsest level from the non-zero field
\* the first tick left there.
C9_Witness ==
    /\ InTick
    /\ rt.t = MaxTicks
    /\ pc = DOWNSCALE_COUNT - 1
    /\ \E p \in DOMAIN field[DOWNSCALE_COUNT - 1] : field[DOWNSCALE_COUNT - 1][p] # Vec2(0, 0)
    /\ \E p \in DOMAIN field[DOWNSCALE_COUNT - 1] : field[DOWNSCALE_COUNT - 1][p].x # field[DOWNSCALE_COUNT - 1][<<0, 0>>].x

\* The places of the compute_divergence dispatches in a command list, and the
\* offsets of the first and of the last of them.
Iterations(cs) == {i \in 1 .. Len(cs) : cs[i].kernel = "compute_divergence"}

FirstOffset(cs) ==
    cs[CHOOSE i \in Iterations(cs) : \A j \in Iterations(cs) : i <= j].args[2]

LastOffset(cs) ==
    cs[CHOOSE i \in Iterations(cs) : \A j \in Iterations(cs) : j <= i].args[2]

\* The offsets of a tick's relaxation iterations are 0, 1, 0, 1, ... in the
\* order of the list, and the first iteration of every level has offset 0.
Alternating(cs) ==
    /\ \A i \in Iterations(cs) :
          cs[i].args[2] = Cardinality({j \in Iterations(cs) : j < i}) % 2
    /\ \A i \in Iterations(cs) :
          (\A j \in Iterations(cs) : j < i => cs[j].args[1] # cs[i].args[1])
              => cs[i].args[2] = 0

\* What compute_divergence at level L with the given offset leaves at pos: the
\* divergence residual times 1.9 on the cells of the offset's colour, 0 on the
\* others.
RedBlack(L, offset, pos) ==
    IF (pos[1] + pos[2]) % 2 = offset
    THEN RoundDiv(19 * Residual(L, pos), 10)
    ELSE 0

\* C11: over the ticks and the multigrid toggles, the offsets passed to
\* compute_divergence alternate 0, 1, 0, 1, ... from one relaxation iteration
\* to the next, within a tick and from the last iteration of a tick to the
\* first of the next; the number of iterations per level being even, parity is
\* 0 between ticks and the first iteration of every level in every tick has
\* offset 0; and each compute_divergence writes the scaled residual to the
\* cells of its level with (x + y) mod 2 = offset and 0 to all its other cells.
C11_RedBlack ==
    /\ [](parity = 0 /\ (commands # <<>> => Alternating(commands)))
    /\ [][/\ (commands # <<>> /\ commands' # commands)
                => FirstOffset(commands') = 1 - LastOffset(commands)
          /\ \A L \in Levels :
                (Running("compute_divergence") /\ Current.args[1] = L)
                    => \A pos \in Cells(Shr(GRID_SIZE, L), Shr(GRID_SIZE, L)) :
                          divergence_error'[L][pos]
                              = RedBlack(L, Current.args[2], pos)]_vars

\* In the second tick, submitted after multigrid was switched off, an
\* iteration with offset 1 has just written a non-zero residual to a cell of
\* its colour and 0 to a cell of the other.
C11_Witness ==
    /\ Executed("compute_divergence")
    /\ rt.t = MaxTicks
    /\ ~rt.activate_multigrid
    /\ Last.args[2] = 1
    /\ divergence_error[Last.args[1]][<<1, 0>>] # 0
    /\ divergence_error[Last.args[1]][<<0, 0>>] = 0

=============================================================================
